---------------------------- MODULE Spec2Model ----------------------------
(***************************************************************************)
(* Model of the impact CLI: the structural differ (compareObjects) and the *)
(* risk classifier (analyzeImpactLocal) of both entry points,              *)
(* Functions/cli/impact-cli.js (v1) and impact-cli-v2.js (v2).             *)
(*                                                                         *)
(* JavaScript strings that the program takes apart (keys, paths, string    *)
(* values) are sequences of one-character strings, so that joining a path  *)
(* with "." and splitting it again are real operations.  JSON values are   *)
(* records of one shape, [t, n, s, kids]; a mapping keeps its keys in      *)
(* insertion order, as a JavaScript object does.                           *)
(***************************************************************************)
EXTENDS Integers, Sequences, FiniteSets, TLC

VARIABLES pc, variant, dataA, dataB, changes, changesBA, impacts,
          args, historyFile, clock, insights, out, exitCode, procs

\* the state of a command-line run: its arguments, the history file in the
\* home directory, the clock, the insights computed, what was printed, the
\* exit code, and the invocations running side by side
cliVars == <<args, historyFile, clock, insights, out, exitCode, procs>>

vars == <<pc, variant, dataA, dataB, changes, changesBA, impacts, cliVars>>

\* no run has started: no history file exists, nothing was printed
NoRun ==
    /\ args = <<>>
    /\ historyFile = [exists |-> FALSE, entries |-> <<>>]
    /\ clock = 0
    /\ insights = <<>>
    /\ out = <<>>
    /\ exitCode = 0
    /\ procs = <<>>

-----------------------------------------------------------------------------
(* Bounds *)

\* largest number of keys of a root mapping
MaxKeys == 2

\* longest list of change records handed to the classifier
MaxChanges == 2

-----------------------------------------------------------------------------
(* Strings *)

Upper == <<"A","B","C","D","E","F","G","H","I","J","K","L","M",
           "N","O","P","Q","R","S","T","U","V","W","X","Y","Z">>

Lower == <<"a","b","c","d","e","f","g","h","i","j","k","l","m",
           "n","o","p","q","r","s","t","u","v","w","x","y","z">>

\* one character under the regular expressions' i flag
FoldChar(c) ==
    IF \E i \in 1..Len(Upper) : Upper[i] = c
    THEN Lower[CHOOSE i \in 1..Len(Upper) : Upper[i] = c]
    ELSE c

FoldCase(s) == [i \in 1..Len(s) |-> FoldChar(s[i])]

\* /^pre/i
StartsWithI(s, pre) ==
    /\ Len(pre) <= Len(s)
    /\ FoldCase(SubSeq(s, 1, Len(pre))) = pre

\* /^word$/i
EqualsI(s, word) == Len(s) = Len(word) /\ FoldCase(s) = word

\* /sub/i
ContainsI(s, sub) ==
    \E i \in 0..(Len(s) - Len(sub)) :
        FoldCase(SubSeq(s, i + 1, i + Len(sub))) = sub

\* String.prototype.split with a one-character separator
RECURSIVE SplitFrom(_, _, _)
SplitFrom(s, sep, cur) ==
    IF s = <<>> THEN <<cur>>
    ELSE IF Head(s) = sep THEN <<cur>> \o SplitFrom(Tail(s), sep, <<>>)
    ELSE SplitFrom(Tail(s), sep, Append(cur, Head(s)))

Split(s, sep) == SplitFrom(s, sep, <<>>)

\* change.path.split('.').pop()
LastKeyOf(path) == LET parts == Split(path, ".") IN parts[Len(parts)]

-----------------------------------------------------------------------------
(* JSON values as JavaScript holds them after JSON.parse *)

Null == [t |-> "null", n |-> 0, s |-> <<>>, kids |-> <<>>]

Undefined == [t |-> "undefined", n |-> 0, s |-> <<>>, kids |-> <<>>]

Bool(b) == [t |-> "boolean", n |-> IF b THEN 1 ELSE 0, s |-> <<>>, kids |-> <<>>]

Num(n) == [t |-> "number", n |-> n, s |-> <<>>, kids |-> <<>>]

Str(s) == [t |-> "string", n |-> 0, s |-> s, kids |-> <<>>]

\* a sequence: its elements, in order
Arr(elems) ==
    [t |-> "array", n |-> 0, s |-> <<>>,
     kids |-> [i \in 1..Len(elems) |-> [k |-> <<>>, v |-> elems[i]]]]

\* a mapping: its [k, v] properties, in insertion order
Obj(props) == [t |-> "object", n |-> 0, s |-> <<>>, kids |-> props]

\* a method inherited from Object.prototype, named s
Fn(s) == [t |-> "function", n |-> 0, s |-> s, kids |-> <<>>]

\* typeof v
TypeOf(v) ==
    IF v.t \in {"null", "array", "object"} THEN "object" ELSE v.t

\* Array.isArray(v)
IsArray(v) == v.t = "array"

\* members every plain object inherits (those the model's keys can name)
ObjectPrototype ==
    { <<"c","o","n","s","t","r","u","c","t","o","r">>,
      <<"t","o","S","t","r","i","n","g">>,
      <<"v","a","l","u","e","O","f">> }

\* Object.keys(o): own keys, in insertion order
ObjectKeys(o) == [i \in 1..Len(o.kids) |-> o.kids[i].k]

HasOwn(o, key) == \E i \in 1..Len(o.kids) : o.kids[i].k = key

\* key in o: own or inherited
In(key, o) == HasOwn(o, key) \/ key \in ObjectPrototype

\* o?.[key]
Get(o, key) ==
    IF o.t \in {"null", "undefined"} THEN Undefined
    ELSE IF HasOwn(o, key)
    THEN o.kids[CHOOSE i \in 1..Len(o.kids) : o.kids[i].k = key].v
    ELSE IF key \in ObjectPrototype THEN Fn(key)
    ELSE Undefined

\* o || {}
OrEmpty(o) == IF o.t \in {"null", "undefined"} THEN Obj(<<>>) ELSE o

\* the decimal digits of a natural number, most significant first
RECURSIVE Digits(_)
Digits(n) ==
    LET d == <<"0","1","2","3","4","5","6","7","8","9">>[(n % 10) + 1]
    IN IF n < 10 THEN <<d>> ELSE Append(Digits(n \div 10), d)

\* JSON.stringify(v), character by character; <<"undefined">> stands for the
\* value undefined that it returns for a function
RECURSIVE JSONStringify(_), StringifyKids(_, _, _)
JSONStringify(v) ==
    CASE v.t = "null"      -> <<"n","u","l","l">>
      [] v.t = "boolean"   -> IF v.n = 1 THEN <<"t","r","u","e">>
                                         ELSE <<"f","a","l","s","e">>
      [] v.t = "number"    -> Digits(v.n)
      [] v.t = "string"    -> <<"\"">> \o v.s \o <<"\"">>
      [] v.t = "array"     -> <<"[">> \o StringifyKids(v.kids, FALSE, 1) \o <<"]">>
      [] v.t = "object"    -> <<"{">> \o StringifyKids(v.kids, TRUE, 1) \o <<"}">>
      [] OTHER             -> <<"undefined">>

StringifyKids(kids, named, i) ==
    IF i > Len(kids) THEN <<>>
    ELSE (IF i > 1 THEN <<",">> ELSE <<>>)
         \o (IF named THEN <<"\"">> \o kids[i].k \o <<"\"", ":">> ELSE <<>>)
         \o JSONStringify(kids[i].v)
         \o StringifyKids(kids, named, i + 1)

-----------------------------------------------------------------------------
(* Change records *)

Added(path, value) ==
    [type |-> "added", path |-> path, value |-> value,
     oldValue |-> Undefined, newValue |-> Undefined]

\* a removal that records the other side's value (value: valueB)
RemovedOtherSide(path, value) ==
    [type |-> "removed", path |-> path, value |-> Undefined,
     oldValue |-> Undefined, newValue |-> Undefined]

Removed(path, value) ==
    [type |-> "removed", path |-> path, value |-> value,
     oldValue |-> Undefined, newValue |-> Undefined]

Modified(path, oldValue, newValue) ==
    [type |-> "modified", path |-> path, value |-> Undefined,
     oldValue |-> oldValue, newValue |-> newValue]

-----------------------------------------------------------------------------
(* The structural differ *)

\* new Set([...keysA, ...keysB]): first occurrences, in order
RECURSIVE KeySet(_, _)
KeySet(keys, seen) ==
    IF keys = <<>> THEN <<>>
    ELSE IF \E i \in 1..Len(seen) : seen[i] = Head(keys)
         THEN KeySet(Tail(keys), seen)
         ELSE <<Head(keys)>> \o KeySet(Tail(keys), Append(seen, Head(keys)))

\* path ? `${path}.${key}` : key
CurrentPath(path, key) == IF path = <<>> THEN key ELSE path \o <<".">> \o key

\* the branch taken for two values present on both sides: recurse or compare
BothMappings(valueA, valueB) ==
    /\ TypeOf(valueA) = "object" /\ TypeOf(valueB) = "object"
    /\ valueA.t # "null" /\ valueB.t # "null"
    /\ ~IsArray(valueA) /\ ~IsArray(valueB)

\* a differ that compares by identity (valueA !== valueB): two loaded
\* documents never share a sequence
DifferByIdentity(valueA, valueB) ==
    IF TypeOf(valueA) = "object" /\ valueA.t # "null" /\ TypeOf(valueB) = "object"
    THEN TRUE
    ELSE valueA # valueB

SerializedDiffer(valueA, valueB) == JSONStringify(valueA) # JSONStringify(valueB)

RECURSIVE compareObjects(_, _, _), CompareKey(_, _, _, _)
\* the body of the for loop, for one key
CompareKey(objA, objB, path, key) ==
    LET currentPath == CurrentPath(path, key)
        valueA == Get(objA, key)
        valueB == Get(objB, key)
    IN IF ~In(key, OrEmpty(objA)) THEN <<Added(currentPath, valueB)>>
       ELSE IF ~In(key, OrEmpty(objB)) THEN <<Removed(currentPath, valueA)>>
       ELSE IF BothMappings(valueA, valueB)
            THEN compareObjects(valueA, valueB, currentPath)
       ELSE IF SerializedDiffer(valueA, valueB)
            THEN <<Modified(currentPath, valueA, valueB)>>
       ELSE <<>>

compareObjects(objA, objB, path) ==
    LET allKeys == KeySet(ObjectKeys(OrEmpty(objA)) \o ObjectKeys(OrEmpty(objB)), <<>>)
        RECURSIVE Loop(_)
        Loop(i) == IF i > Len(allKeys) THEN <<>>
                   ELSE CompareKey(objA, objB, path, allKeys[i]) \o Loop(i + 1)
    IN Loop(1)

-----------------------------------------------------------------------------
(* The words of the classifier's regular expressions, in lower case *)

wApikey == <<"a","p","i","k","e","y">>
wApi_key == <<"a","p","i","_","k","e","y">>
wApiDashKey == <<"a","p","i","-","k","e","y">>
wSecret == <<"s","e","c","r","e","t">>
wPassword == <<"p","a","s","s","w","o","r","d">>
wToken == <<"t","o","k","e","n">>
wAuth == <<"a","u","t","h">>
wDatabase == <<"d","a","t","a","b","a","s","e">>
wDb == <<"d","b">>
wHost == <<"h","o","s","t">>
wUrl == <<"u","r","l">>
wConnection == <<"c","o","n","n","e","c","t","i","o","n">>
wEnable == <<"e","n","a","b","l","e">>
wEnabled == <<"e","n","a","b","l","e","d">>
wActive == <<"a","c","t","i","v","e">>
wDisable == <<"d","i","s","a","b","l","e">>
wDisabled == <<"d","i","s","a","b","l","e","d">>
wRequired == <<"r","e","q","u","i","r","e","d">>
wTimeout == <<"t","i","m","e","o","u","t">>
wLimit == <<"l","i","m","i","t">>
wMax == <<"m","a","x">>
wMin == <<"m","i","n">>
wThreshold == <<"t","h","r","e","s","h","o","l","d">>
wRetry == <<"r","e","t","r","y">>
wPort == <<"p","o","r","t">>
wEndpoint == <<"e","n","d","p","o","i","n","t">>
wName == <<"n","a","m","e">>
wType == <<"t","y","p","e">>
wVersion == <<"v","e","r","s","i","o","n">>
wFormat == <<"f","o","r","m","a","t">>
wEncoding == <<"e","n","c","o","d","i","n","g">>
wLocale == <<"l","o","c","a","l","e">>
wTimezone == <<"t","i","m","e","z","o","n","e">>

-----------------------------------------------------------------------------
(* The risk classifier of impact-cli-v2.js *)

\* /^(api[_-]?key|secret|password|token|auth)/i
\* /^(database|db)[_.-](host|url|connection)/i
\* /^(enabled?|active|disabled?)$/i
CRITICAL_PATTERNS(lastKey) ==
    \/ \E pre \in {wApikey, wApi_key, wApiDashKey, wSecret, wPassword, wToken, wAuth} :
           StartsWithI(lastKey, pre)
    \/ \E db \in {wDatabase, wDb}, sep \in {"_", ".", "-"},
          field \in {wHost, wUrl, wConnection} :
           StartsWithI(lastKey, db \o <<sep>> \o field)
    \/ \E word \in {wEnable, wEnabled, wActive, wDisable, wDisabled} :
           EqualsI(lastKey, word)

\* /timeout/i, /limit/i, /max[_-]?/i, /min[_-]?/i, /threshold/i, /retry/i,
\* /^port$/i, /^host$/i, /^endpoint$/i, /^url$/i
HIGH_PATTERNS(lastKey) ==
    \/ \E sub \in {wTimeout, wLimit, wMax, wMin, wThreshold, wRetry} :
           ContainsI(lastKey, sub)
    \/ \E word \in {wPort, wHost, wEndpoint, wUrl} : EqualsI(lastKey, word)

\* /^name$/i, /^type$/i, /^version$/i, /^format$/i, /^encoding$/i,
\* /^locale$/i, /^timezone$/i
MEDIUM_PATTERNS(lastKey) ==
    \E word \in {wName, wType, wVersion, wFormat, wEncoding, wLocale, wTimezone} :
        EqualsI(lastKey, word)

\* a classifier that tries the High tier before the Critical tier
BaselineHighFirst(lastKey) ==
    IF HIGH_PATTERNS(lastKey) THEN "high"
    ELSE IF CRITICAL_PATTERNS(lastKey) THEN "critical"
    ELSE IF MEDIUM_PATTERNS(lastKey) THEN "medium"
    ELSE "low"

\* the if / else-if cascade that sets level (and, in v2, category)
Baseline(lastKey) ==
    IF CRITICAL_PATTERNS(lastKey) THEN "critical"
    ELSE IF HIGH_PATTERNS(lastKey) THEN "high"
    ELSE IF MEDIUM_PATTERNS(lastKey) THEN "medium"
    ELSE "low"

Category(lastKey) ==
    IF CRITICAL_PATTERNS(lastKey) THEN "security"
    ELSE IF HIGH_PATTERNS(lastKey) THEN "performance"
    ELSE IF MEDIUM_PATTERNS(lastKey) THEN "configuration"
    ELSE "general"

\* a removal that keeps the baseline level
RemovalLevelNoFloor(level) == level

\* if (level === 'low') level = 'medium'
RemovalLevel(level) == IF level = "low" THEN "medium" ELSE level

NaN == [nan |-> TRUE, n |-> 0]

Finite(n) == [nan |-> FALSE, n |-> n]

IsDigit(c) == c \in {"0","1","2","3","4","5","6","7","8","9"}

DigitValue(c) == CHOOSE d \in 0..9 : <<"0","1","2","3","4","5","6","7","8","9">>[d + 1] = c

RECURSIVE DecimalValue(_)
DecimalValue(s) ==
    IF s = <<>> THEN 0
    ELSE DecimalValue(SubSeq(s, 1, Len(s) - 1)) * 10 + DigitValue(s[Len(s)])

\* Number(s) for a string: the empty string is 0, a string of decimal digits
\* its value, any other string of the model NaN
StringToNumber(s) ==
    IF \A i \in 1..Len(s) : IsDigit(s[i]) THEN Finite(DecimalValue(s)) ELSE NaN

\* Number(v)
RECURSIVE ToNumber(_)
ToNumber(v) ==
    CASE v.t = "number"  -> Finite(v.n)
      [] v.t = "boolean" -> Finite(v.n)
      [] v.t = "null"    -> Finite(0)
      [] v.t = "string"  -> StringToNumber(v.s)
      [] v.t = "array"   ->
            IF Len(v.kids) = 0 THEN Finite(0)
            ELSE IF Len(v.kids) = 1 /\ v.kids[1].v.t \in {"number", "string", "null"}
                 THEN ToNumber(v.kids[1].v)
            ELSE NaN
      [] OTHER           -> NaN

\* `${v}` for the values that reach a description (scalars and mappings; no
\* record of ChangeRecords holds a sequence or a function)
Interpolate(v) ==
    CASE v.t = "number"    -> Digits(v.n)
      [] v.t = "string"    -> v.s
      [] v.t = "boolean"   -> IF v.n = 1 THEN <<"t","r","u","e">> ELSE <<"f","a","l","s","e">>
      [] v.t = "null"      -> <<"n","u","l","l">>
      [] v.t = "undefined" -> <<"u","n","d","e","f","i","n","e","d">>
      [] v.t = "object"    -> <<"[","o","b","j","e","c","t"," ","O","b","j","e","c","t","]">>
      [] OTHER             -> <<"?">>

\* `${typeof v}`
TypeWord(v) ==
    CASE TypeOf(v) = "object"    -> <<"o","b","j","e","c","t">>
      [] TypeOf(v) = "number"    -> <<"n","u","m","b","e","r">>
      [] TypeOf(v) = "string"    -> <<"s","t","r","i","n","g">>
      [] TypeOf(v) = "boolean"   -> <<"b","o","o","l","e","a","n">>
      [] TypeOf(v) = "function"  -> <<"f","u","n","c","t","i","o","n">>
      [] OTHER                   -> <<"u","n","d","e","f","i","n","e","d">>

\* a template string: its fixed text, and the two values it interpolates
Text(msg, old, new) == [msg |-> msg, old |-> old, new |-> new]

NoText == Text("", <<>>, <<>>)

Impact(level, change, title, description, recommendation, category) ==
    [level |-> level, path |-> change.path, title |-> title,
     description |-> description, recommendation |-> recommendation,
     changeType |-> change.type, category |-> category]

\* a classifier without the output filter
PushAlways(impact) == <<impact>>

\* if (level !== 'low' || change.type === 'removed') impacts.push(...)
Push(impact) ==
    IF impact.level # "low" \/ impact.changeType = "removed" THEN <<impact>> ELSE <<>>

\* the timeout rule of v2: what it makes of level, description, recommendation
TimeoutRule(lastKey, change, st) ==
    LET oldVal == ToNumber(change.oldValue)
        newVal == ToNumber(change.newValue)
    IN IF ContainsI(lastKey, wTimeout) /\ ~oldVal.nan /\ ~newVal.nan /\ newVal.n < oldVal.n
       THEN [level |-> "high",
             description |-> Text("Timeout decreased from {old} to {new}.",
                                  Digits(oldVal.n), Digits(newVal.n)),
             recommendation |-> Text("Make sure the new value is sufficient.", <<>>, <<>>)]
       ELSE st

\* the activity-flag rule of v2
FlagRule(lastKey, change, st) ==
    IF \E word \in {wEnable, wEnabled, wActive} : EqualsI(lastKey, word)
    THEN [level |-> "critical",
          description |-> Text("Activity flag changed: {old} -> {new}",
                               Interpolate(change.oldValue), Interpolate(change.newValue)),
          recommendation |-> Text("Critical change. Check the impact!", <<>>, <<>>)]
    ELSE st

\* a type-change rule that raises only a Low level (if (level === 'low'))
TypeRuleLowOnly(change, st) ==
    IF TypeOf(change.oldValue) # TypeOf(change.newValue)
    THEN [st EXCEPT !.level = IF st.level = "low" THEN "high" ELSE st.level,
                    !.description = Text("Data type changed from {old} to {new}",
                                         TypeWord(change.oldValue), TypeWord(change.newValue))]
    ELSE st

\* the type-change rule of v2
TypeRule(change, st) ==
    IF TypeOf(change.oldValue) # TypeOf(change.newValue)
    THEN [st EXCEPT !.level = "high",
                    !.description = Text("Data type changed from {old} to {new}",
                                         TypeWord(change.oldValue), TypeWord(change.newValue))]
    ELSE st

\* one iteration of the for loop of v2
ClassifyChange(change) ==
    LET lastKey == LastKeyOf(change.path)
        level == Baseline(lastKey)
        category == Category(lastKey)
        st0 == [level |-> level, description |-> NoText, recommendation |-> NoText]
    IN IF change.type = "removed"
       THEN Push(Impact(RemovalLevel(level), change,
                        Text("Field removed: {old}", lastKey, <<>>),
                        Text("Removing a field can lead to errors in the code.", <<>>, <<>>),
                        Text("Make sure this field is no longer used.", <<>>, <<>>),
                        category))
       ELSE IF change.type = "added"
       THEN Push(Impact(level, change,
                        Text("New field added: {old}", lastKey, <<>>),
                        Text("New field in the configuration.", <<>>, <<>>),
                        NoText, category))
       ELSE IF change.type = "modified"
       THEN LET st == TypeRule(change, FlagRule(lastKey, change,
                                                TimeoutRule(lastKey, change, st0)))
            IN Push(Impact(st.level, change,
                           Text("Value changed: {old}", lastKey, <<>>),
                           st.description, st.recommendation, category))
       ELSE Push(Impact(level, change, NoText, NoText, NoText, category))

\* a classifier that puts each impact in front of the list (impacts.unshift)
RECURSIVE analyzeImpactReversed(_)
analyzeImpactReversed(list) ==
    IF list = <<>> THEN <<>>
    ELSE analyzeImpactReversed(Tail(list)) \o ClassifyChange(Head(list))

RECURSIVE analyzeImpactLoop(_)
analyzeImpactLoop(list) ==
    IF list = <<>> THEN <<>>
    ELSE ClassifyChange(Head(list)) \o analyzeImpactLoop(Tail(list))

\* analyzeImpactLocal(changes) of impact-cli-v2.js
analyzeImpactLocal(list) == analyzeImpactLoop(list)

-----------------------------------------------------------------------------
(* The risk classifier of Functions/cli/impact-cli.js *)

\* /^(api[_-]?key|secret|password|token|auth)/i
\* /^(database|db)[_.-](host|url|connection)/i
\* /^required/i, /^enabled?$/i, /^active$/i
criticalPatterns(lastKey) ==
    \/ \E pre \in {wApikey, wApi_key, wApiDashKey, wSecret, wPassword, wToken, wAuth} :
           StartsWithI(lastKey, pre)
    \/ \E db \in {wDatabase, wDb}, sep \in {"_", ".", "-"},
          field \in {wHost, wUrl, wConnection} :
           StartsWithI(lastKey, db \o <<sep>> \o field)
    \/ StartsWithI(lastKey, wRequired)
    \/ \E word \in {wEnable, wEnabled} : EqualsI(lastKey, word)
    \/ EqualsI(lastKey, wActive)

\* the same ten expressions as HIGH_PATTERNS
highPatterns(lastKey) == HIGH_PATTERNS(lastKey)

\* the same seven expressions as MEDIUM_PATTERNS
mediumPatterns(lastKey) == MEDIUM_PATTERNS(lastKey)

BaselineV1(lastKey) ==
    IF criticalPatterns(lastKey) THEN "critical"
    ELSE IF highPatterns(lastKey) THEN "high"
    ELSE IF mediumPatterns(lastKey) THEN "medium"
    ELSE "low"

\* the else-if chain of the modified branch of v1
ModifiedRulesV1(lastKey, change, level) ==
    LET oldVal == ToNumber(change.oldValue)
        newVal == ToNumber(change.newValue)
        st0 == [level |-> level, description |-> NoText, recommendation |-> NoText]
    IN IF ContainsI(lastKey, wTimeout)
       THEN IF ~oldVal.nan /\ ~newVal.nan
            THEN IF newVal.n < oldVal.n
                 THEN [level |-> IF level = "low" THEN "medium" ELSE level,
                       description |->
                           Text("Timeout decreased from {old} to {new}. Timeout errors are possible.",
                                Digits(oldVal.n), Digits(newVal.n)),
                       recommendation |->
                           Text("Make sure the new value is sufficient for the operations.",
                                <<>>, <<>>)]
                 ELSE [st0 EXCEPT !.description =
                           Text("Timeout increased from {old} to {new}.",
                                Digits(oldVal.n), Digits(newVal.n))]
            ELSE st0
       ELSE IF \E word \in {wEnable, wEnabled, wActive} : EqualsI(lastKey, word)
       THEN [level |-> "critical",
             description |-> Text("Activity flag changed: {old} -> {new}",
                                  Interpolate(change.oldValue), Interpolate(change.newValue)),
             recommendation |->
                 Text("Critical change. Check the impact on the system.", <<>>, <<>>)]
       ELSE IF \E word \in {wPort, wHost} : EqualsI(lastKey, word)
       THEN [level |-> "high",
             description |-> Text("Connection parameters changed: {old} -> {new}",
                                  Interpolate(change.oldValue), Interpolate(change.newValue)),
             recommendation |->
                 Text("Make sure the new parameters are correct and reachable.", <<>>, <<>>)]
       ELSE [st0 EXCEPT !.description =
                 Text("Value changed from {old} to {new}",
                      Interpolate(change.oldValue), Interpolate(change.newValue))]

\* one iteration of the for loop of v1 (its records have no category)
ClassifyChangeV1(change) ==
    LET lastKey == LastKeyOf(change.path)
        level == BaselineV1(lastKey)
    IN IF change.type = "removed"
       THEN Push(Impact(RemovalLevel(level), change,
                        Text("Field removed: {old}", lastKey, <<>>),
                        Text("Removing a field can lead to errors in the code that uses it.",
                             <<>>, <<>>),
                        Text("Make sure this field is no longer used in the system.",
                             <<>>, <<>>),
                        ""))
       ELSE IF change.type = "added"
       THEN Push(Impact(level, change,
                        Text("Field added: {old}", lastKey, <<>>),
                        IF level \in {"critical", "high"}
                        THEN Text("New field in the configuration. Needs attention at deployment.",
                                  <<>>, <<>>)
                        ELSE Text("New field in the configuration.", <<>>, <<>>),
                        IF level \in {"critical", "high"}
                        THEN Text("Check that all components support the new field.", <<>>, <<>>)
                        ELSE NoText,
                        ""))
       ELSE IF change.type = "modified"
       THEN LET st == ModifiedRulesV1(lastKey, change, level)
            IN Push(Impact(st.level, change,
                           Text("Value changed: {old}", lastKey, <<>>),
                           st.description, st.recommendation, ""))
       ELSE Push(Impact(level, change, NoText, NoText, NoText, ""))

RECURSIVE analyzeImpactLoopV1(_)
analyzeImpactLoopV1(list) ==
    IF list = <<>> THEN <<>>
    ELSE ClassifyChangeV1(Head(list)) \o analyzeImpactLoopV1(Tail(list))

\* analyzeImpactLocal(changes) of impact-cli.js
analyzeImpactLocalV1(list) == analyzeImpactLoopV1(list)

-----------------------------------------------------------------------------
(* Change records the classifier is run on *)

pDbHost == <<"d","b",".","h","o","s","t">>
pSecret == <<"s","e","c","r","e","t">>
pTimeout == <<"T","i","m","e","o","u","t">>
pAuthTimeout == <<"a","u","t","h","_","t","i","m","e","o","u","t">>
pEnabled == <<"e","n","a","b","l","e","d">>
pActive == <<"a","p","p",".","A","C","T","I","V","E">>
pName == <<"n","a","m","e">>
pSecretX == <<"s","e","c","r","e","t",".","x">>

Paths == {pDbHost, pSecret, pTimeout, pAuthTimeout, pEnabled, pActive, pName, pSecretX}

\* old and new values of a modification of any field: same-typed strings,
\* same-typed booleans, and a change of type
ValuePairs ==
    { <<Str(<<"a">>), Str(<<"b">>)>>,
      <<Bool(TRUE), Bool(FALSE)>>,
      <<Bool(TRUE), Str(<<"y","e","s">>)>> }

\* further old and new values of a timeout field: a decrease, an increase,
\* a value set to null, and a decrease written as strings
TimeoutPairs ==
    { <<Num(30), Num(10)>>, <<Num(10), Num(30)>>, <<Num(30), Null>>,
      <<Str(<<"3","0">>), Str(<<"1","0">>)>> }

ChangeRecords ==
    {Added(p, Str(<<"x">>)) : p \in Paths}
    \cup {Removed(p, Str(<<"x">>)) : p \in Paths}
    \cup {Modified(p, vp[1], vp[2]) : p \in Paths, vp \in ValuePairs}
    \cup {Modified(p, vp[1], vp[2]) : p \in {pTimeout, pAuthTimeout}, vp \in TimeoutPairs}

-----------------------------------------------------------------------------
(* The classifier run on a list of change records, one record longer each
   time *)

InitClassify ==
    /\ pc = "classify"
    /\ variant \in {"v1", "v2"}
    /\ dataA = Obj(<<>>)
    /\ dataB = Obj(<<>>)
    /\ changes = <<>>
    /\ changesBA = <<>>
    /\ impacts = <<>>
    /\ NoRun

\* const impacts = analyzeImpactLocal(changes), impact-cli-v2.js
AnalyzeV2 ==
    /\ pc = "classify"
    /\ variant = "v2"
    /\ Len(changes) < MaxChanges
    /\ \E c \in ChangeRecords :
        /\ changes' = Append(changes, c)
        /\ impacts' = analyzeImpactLocal(changes')
    /\ UNCHANGED <<pc, variant, dataA, dataB, changesBA, cliVars>>

\* const impacts = analyzeImpactLocal(changes), impact-cli.js
AnalyzeV1 ==
    /\ pc = "classify"
    /\ variant = "v1"
    /\ Len(changes) < MaxChanges
    /\ \E c \in ChangeRecords :
        /\ changes' = Append(changes, c)
        /\ impacts' = analyzeImpactLocalV1(changes')
    /\ UNCHANGED <<pc, variant, dataA, dataB, changesBA, cliVars>>

NextClassify == AnalyzeV2 \/ AnalyzeV1

SpecClassify == InitClassify /\ [][NextClassify]_vars

-----------------------------------------------------------------------------
(* Documents the differ is run on *)

kA == <<"a">>
kB == <<"b">>
kAdotB == <<"a", ".", "b">>
kCtor == <<"c","o","n","s","t","r","u","c","t","o","r">>

\* {"a": x, "b": y} and the same mapping written in the other key order
MapAB == Obj(<<[k |-> kA, v |-> Num(1)], [k |-> kB, v |-> Num(2)]>>)
MapBA == Obj(<<[k |-> kB, v |-> Num(2)], [k |-> kA, v |-> Num(1)]>>)

NestB1 == Obj(<<[k |-> kB, v |-> Num(1)]>>)
NestB2 == Obj(<<[k |-> kB, v |-> Num(2)]>>)

RootKeys == {kA, kAdotB, kCtor}

ValuesFor(key) ==
    IF key = kA THEN {Num(1), Null, NestB1, NestB2, Arr(<<MapAB>>), Arr(<<MapBA>>)}
    ELSE IF key = kAdotB THEN {Num(1), Num(2), Str(<<"1">>)}
    ELSE {Num(1), NestB1}

AllValues == UNION {ValuesFor(key) : key \in RootKeys}

Injective(f) == \A i, j \in DOMAIN f : f[i] = f[j] => i = j

KeyLists ==
    {ks \in UNION {[1..n -> RootKeys] : n \in 0..MaxKeys} : Injective(ks)}

DocsOver(ks) ==
    {Obj([i \in 1..Len(ks) |-> [k |-> ks[i], v |-> vs[i]]]) :
        vs \in {f \in [1..Len(ks) -> AllValues] :
                    \A i \in 1..Len(ks) : f[i] \in ValuesFor(ks[i])}}

Docs == UNION {DocsOver(ks) : ks \in KeyLists}

-----------------------------------------------------------------------------
(* The differ run on two loaded documents, in both directions *)

InitDiff ==
    /\ pc = "loaded"
    /\ variant = "v2"
    /\ dataA \in Docs
    /\ dataB \in Docs
    /\ changes = <<>>
    /\ changesBA = <<>>
    /\ impacts = <<>>
    /\ NoRun

\* const changes = compareObjects(dataA, dataB)
Compare ==
    /\ pc = "loaded"
    /\ changes' = compareObjects(dataA, dataB, <<>>)
    /\ pc' = "compared"
    /\ UNCHANGED <<variant, dataA, dataB, changesBA, impacts, cliVars>>

\* the same two documents given in the other order
CompareSwapped ==
    /\ pc = "compared"
    /\ changesBA' = compareObjects(dataB, dataA, <<>>)
    /\ pc' = "both"
    /\ UNCHANGED <<variant, dataA, dataB, changes, impacts, cliVars>>

NextDiff == Compare \/ CompareSwapped

SpecDiff == InitDiff /\ [][NextDiff]_vars

-----------------------------------------------------------------------------
(* The comparison history (impact-cli-v2.js) *)

\* if (history.length < 3) return []
MinHistory == 3

\* .filter(([path, count]) => count >= 3)
FrequentCount == 3

\* frequentlyChanged.slice(0, 5)
TopPaths == 5

\* the record main() hands to saveToHistory; timestamp is the clock's reading
HistoryRecord(name, timestamp, fileA, fileB, chs, imps) ==
    [name |-> name, timestamp |-> timestamp, fileA |-> fileA, fileB |-> fileB,
     changes |-> chs, impacts |-> imps,
     riskLevel |-> IF \E i \in 1..Len(imps) : imps[i].level = "critical"
                   THEN "critical"
                   ELSE IF \E i \in 1..Len(imps) : imps[i].level = "high"
                   THEN "high" ELSE "low",
     summary |-> [total |-> Len(chs),
                  added |-> Len(SelectSeq(chs, LAMBDA c : c.type = "added")),
                  removed |-> Len(SelectSeq(chs, LAMBDA c : c.type = "removed")),
                  modified |-> Len(SelectSeq(chs, LAMBDA c : c.type = "modified"))]]

\* history.flatMap(h => h.changes || [])
RECURSIVE FlatChanges(_)
FlatChanges(history) ==
    IF history = <<>> THEN <<>>
    ELSE Head(history).changes \o FlatChanges(Tail(history))

\* v || 0
OrZero(v) ==
    IF \/ v.t \in {"undefined", "null"}
       \/ (v.t \in {"number", "boolean"} /\ v.n = 0)
       \/ (v.t = "string" /\ v.s = <<>>)
    THEN Num(0) ELSE v

\* String(f) for a method inherited from Object.prototype
FunctionSource(f) ==
    <<"f","u","n","c","t","i","o","n"," ">> \o f.s
    \o <<"(",")"," ","{"," ","[","n","a","t","i","v","e"," ","c","o","d","e","]"," ","}">>

\* v + 1: a sum for a number, a concatenation for a string or a function
PlusOne(v) ==
    CASE v.t = "number"   -> Num(v.n + 1)
      [] v.t = "string"   -> Str(v.s \o <<"1">>)
      [] v.t = "function" -> Str(FunctionSource(v) \o <<"1">>)

\* o[key] = v: an own property is overwritten in place, a new one appended
Put(o, key, v) ==
    IF HasOwn(o, key)
    THEN Obj([i \in 1..Len(o.kids) |->
                 IF o.kids[i].k = key THEN [k |-> key, v |-> v] ELSE o.kids[i]])
    ELSE Obj(Append(o.kids, [k |-> key, v |-> v]))

\* for (const change of allChanges)
\*     pathCounts[change.path] = (pathCounts[change.path] || 0) + 1
RECURSIVE CountPaths(_, _)
CountPaths(chs, pathCounts) ==
    IF chs = <<>> THEN pathCounts
    ELSE LET path == Head(chs).path
         IN CountPaths(Tail(chs),
                       Put(pathCounts, path, PlusOne(OrZero(Get(pathCounts, path)))))

\* count >= 3
AtLeast(count, n) ==
    LET c == ToNumber(count) IN ~c.nan /\ c.n >= n

\* Object.entries(pathCounts).filter(([path, count]) => count >= 3)
Frequent(pathCounts) ==
    SelectSeq(pathCounts.kids, LAMBDA e : AtLeast(e.v, FrequentCount))

\* one step of the stable sort: e goes behind every entry whose count is not
\* smaller (b[1] - a[1] <= 0 keeps the order)
RECURSIVE InsertByCount(_, _)
InsertByCount(sorted, e) ==
    IF sorted = <<>> THEN <<e>>
    ELSE IF Head(sorted).v.n >= e.v.n
         THEN <<Head(sorted)>> \o InsertByCount(Tail(sorted), e)
         ELSE <<e>> \o sorted

\* .sort((a, b) => b[1] - a[1])
RECURSIVE SortByCount(_)
SortByCount(entries) ==
    IF entries = <<>> THEN <<>>
    ELSE InsertByCount(SortByCount(SubSeq(entries, 1, Len(entries) - 1)),
                       entries[Len(entries)])

\* `${path} (${count}x)`
PathLabel(path, count) == path \o <<" ", "(">> \o Digits(count) \o <<"x", ")">>

\* analyzeHistory(history)
analyzeHistory(history) ==
    IF Len(history) < MinHistory THEN <<>>
    ELSE LET pathCounts == CountPaths(FlatChanges(history), Obj(<<>>))
             frequentlyChanged == SortByCount(Frequent(pathCounts))
             top == SubSeq(frequentlyChanged, 1,
                           IF Len(frequentlyChanged) < TopPaths
                           THEN Len(frequentlyChanged) ELSE TopPaths)
         IN IF Len(frequentlyChanged) > 0
            THEN << [type |-> "frequent_changes",
                     paths |-> [i \in 1..Len(top) |-> PathLabel(top[i].k, top[i].v.n)]] >>
            ELSE <<>>

\* loadHistory(): the stored list, or the empty list when no file exists
loadHistory(file) == IF file.exists THEN file.entries ELSE <<>>

-----------------------------------------------------------------------------
(* Histories the analysis is run on *)

\* longest history handed to analyzeHistory
MaxHistory == 4

\* six paths of changed fields
hPaths == << <<"a">>, <<"b">>, <<"c">>, <<"d">>, <<"e">>, <<"f">> >>

\* a saved comparison in which each of the paths was modified
SavedRun(paths) ==
    LET chs == [i \in 1..Len(paths) |-> Modified(paths[i], Num(1), Num(2))]
    IN HistoryRecord(<<"r">>, 0, <<"a",".","j","s","o","n">>,
                     <<"b",".","j","s","o","n">>, chs, analyzeImpactLocal(chs))

HistoryEntries ==
    { SavedRun(hPaths), SavedRun(SubSeq(hPaths, 1, 2)), SavedRun(<<hPaths[6]>>),
      SavedRun(<<kCtor>>), SavedRun(<<>>) }

Histories == UNION { [1..n -> HistoryEntries] : n \in 0..MaxHistory }

InitHistory ==
    /\ pc = "history"
    /\ variant = "v2"
    /\ dataA = Obj(<<>>)
    /\ dataB = Obj(<<>>)
    /\ changes = <<>>
    /\ changesBA = <<>>
    /\ impacts = <<>>
    /\ args = <<>>
    /\ \E h \in Histories : historyFile \in { [exists |-> TRUE, entries |-> h],
                                              [exists |-> FALSE, entries |-> <<>>] }
    /\ clock = 0
    /\ insights = <<>>
    /\ out = <<>>
    /\ exitCode = 0
    /\ procs = <<>>

\* const history = loadHistory(); const insights = analyzeHistory(history)
AnalyzeHistory ==
    /\ pc = "history"
    /\ insights' = analyzeHistory(loadHistory(historyFile))
    /\ pc' = "analyzed"
    /\ UNCHANGED <<variant, dataA, dataB, changes, changesBA, impacts,
                   args, historyFile, clock, out, exitCode, procs>>

NextHistory == AnalyzeHistory

SpecHistory == InitHistory /\ [][NextHistory]_vars

-----------------------------------------------------------------------------
(* saveToHistory called again and again on a stored history *)

\* if (history.length > 100) history.splice(100)
HistoryLimit == 100

\* most calls of saveToHistory in one behaviour
MaxSaves == 3

\* a save that never cuts the list
saveUncapped(file, record) ==
    [exists |-> TRUE, entries |-> <<record>> \o loadHistory(file)]

\* history.unshift(record); if (history.length > 100) history.splice(100)
unshiftCapped(history, record) ==
    LET longer == <<record>> \o history
    IN IF Len(longer) > HistoryLimit THEN SubSeq(longer, 1, HistoryLimit) ELSE longer

\* saveToHistory(record): the file after the call
saveToHistory(file, record) ==
    [exists |-> TRUE, entries |-> unshiftCapped(loadHistory(file), record)]

\* a comparison without changes saved under a name at a time
NamedRun(name, timestamp) ==
    HistoryRecord(name, timestamp, <<"a",".","j","s","o","n">>,
                  <<"b",".","j","s","o","n">>, <<>>, <<>>)

\* a history of n runs saved at the times n, ..., 1, the newest first
StoredHistory(n) == [i \in 1..n |-> NamedRun(<<"r">>, n + 1 - i)]

InitSave ==
    /\ pc = "save"
    /\ variant = "v2"
    /\ dataA = Obj(<<>>)
    /\ dataB = Obj(<<>>)
    /\ changes = <<>>
    /\ changesBA = <<>>
    /\ impacts = <<>>
    /\ args = <<>>
    /\ \E n \in 0..HistoryLimit :
         historyFile \in { [exists |-> TRUE, entries |-> StoredHistory(n)],
                           [exists |-> FALSE, entries |-> <<>>] }
    /\ clock = HistoryLimit
    /\ insights = <<>>
    /\ out = <<>>
    /\ exitCode = 0
    /\ procs = <<>>

\* saveToHistory(record), the clock having moved on
SaveToHistory ==
    /\ pc = "save"
    /\ clock < HistoryLimit + MaxSaves
    /\ clock' = clock + 1
    /\ \E name \in {<<"r">>, <<"s">>} :
         historyFile' = saveToHistory(historyFile, NamedRun(name, clock'))
    /\ UNCHANGED <<pc, variant, dataA, dataB, changes, changesBA, impacts,
                   args, insights, out, exitCode, procs>>

NextSave == SaveToHistory

SpecSave == InitSave /\ [][NextSave]_vars

-----------------------------------------------------------------------------
(* One invocation of the command line, from parseArgs to the exit *)

\* longest argument list of an invocation
MaxArgs == 3

\* history.slice(0, 20)
ShownRecords == 20

\* the arguments an invocation is made of
Tk ==
    [help    |-> <<"-","-","h","e","l","p">>,
     h       |-> <<"-","h">>,
     history |-> <<"-","-","h","i","s","t","o","r","y">>,
     a       |-> <<"a",".","j","s","o","n">>,
     b       |-> <<"b",".","j","s","o","n">>,
     bad     |-> <<"b","a","d",".","j","s","o","n">>,
     txt     |-> <<"c",".","t","x","t">>,
     save    |-> <<"-","-","s","a","v","e","=","x">>,
     unnamed |-> <<"-","-","s","a","v","e","=">>,
     schema  |-> <<"-","-","s","c","h","e","m","a","=","b","a","d",".","j","s","o","n">>]

Tokens ==
    { Tk.help, Tk.h, Tk.history, Tk.a, Tk.b, Tk.bad, Tk.txt, Tk.save, Tk.unnamed,
      Tk.schema }

ArgLists == UNION { [1..n -> Tokens] : n \in 0..MaxArgs }

\* the files on disk: a.json holds {"a": 1}, b.json holds {"a": 2}, bad.json
\* and c.txt hold text that is not JSON, no other file exists
ReadFile(name) ==
    CASE name = Tk.a -> [exists |-> TRUE, json |-> TRUE,
                         data |-> Obj(<<[k |-> kA, v |-> Num(1)]>>)]
      [] name = Tk.b -> [exists |-> TRUE, json |-> TRUE,
                         data |-> Obj(<<[k |-> kA, v |-> Num(2)]>>)]
      [] name \in {Tk.bad, Tk.txt} -> [exists |-> TRUE, json |-> FALSE, data |-> Null]
      [] OTHER -> [exists |-> FALSE, json |-> FALSE, data |-> Null]

\* s.startsWith(pre)
StartsWith(s, pre) == Len(pre) <= Len(s) /\ SubSeq(s, 1, Len(pre)) = pre

\* path.basename(p)
Basename(p) == LET parts == Split(p, "/") IN parts[Len(parts)]

\* path.extname(p).toLowerCase()
ExtName(p) ==
    LET parts == Split(Basename(p), ".")
    IN IF Len(parts) = 1 \/ (Len(parts) = 2 /\ parts[1] = <<>>) THEN <<>>
       ELSE FoldCase(<<".">> \o parts[Len(parts)])

\* a loader that takes a file it cannot read for an empty document
loadFileOrEmpty(filePath) ==
    LET f == ReadFile(filePath)
    IN [ok |-> TRUE, error |-> "", data |-> IF f.json THEN f.data ELSE Obj(<<>>)]

\* loadFile(filePath): the parsed document, or the error thrown.  No file of
\* the model is YAML; parseYAML stands as the document the file denotes.
loadFile(filePath) ==
    LET f == ReadFile(filePath)
        ext == ExtName(filePath)
    IN IF ~f.exists THEN [ok |-> FALSE, error |-> "not found", data |-> Null]
       ELSE IF ext = <<".","j","s","o","n">>
       THEN IF f.json THEN [ok |-> TRUE, error |-> "", data |-> f.data]
                      ELSE [ok |-> FALSE, error |-> "syntax", data |-> Null]
       ELSE IF ext \in {<<".","y","a","m","l">>, <<".","y","m","l">>}
       THEN [ok |-> TRUE, error |-> "", data |-> f.data]
       ELSE IF f.json THEN [ok |-> TRUE, error |-> "", data |-> f.data]
                      ELSE [ok |-> FALSE, error |-> "unsupported", data |-> Null]

\* args.find(a => a.startsWith(prefix))?.split('=')[1]; the empty string
\* stands for undefined as well, both being falsy
Option(argv, prefix) ==
    LET hits == SelectSeq(argv, LAMBDA a : StartsWith(a, prefix))
    IN IF hits = <<>> THEN <<>> ELSE Split(hits[1], "=")[2]

\* the loop of v1's parseArgs from args[i] on: TRUE when it reaches --help or -h
RECURSIVE HelpReached(_, _)
HelpReached(argv, i) ==
    IF i > Len(argv) THEN FALSE
    ELSE IF StartsWith(argv[i], <<"-","-","f","o","r","m","a","t","=">>) \/ StartsWith(argv[i], <<"-","-","o","u","t","p","u","t","=">>)
    THEN HelpReached(argv, i + 1)
    ELSE IF argv[i] = <<"-","o">> /\ i + 1 <= Len(argv) /\ argv[i + 1] # <<>>
    THEN HelpReached(argv, i + 2)
    ELSE IF argv[i] \in {Tk.help, Tk.h} THEN TRUE
    ELSE HelpReached(argv, i + 1)

\* what showHistory() prints
showHistory(history) ==
    IF Len(history) = 0 THEN <<"history empty">>
    ELSE <<"history header">>
         \o [i \in 1..(IF Len(history) < ShownRecords THEN Len(history)
                       ELSE ShownRecords) |-> "history record"]

\* the histories earlier runs have left: none, or two or three saved
\* comparisons of a.json with b.json
StoredRuns == { <<>>, [i \in 1..2 |-> SavedRun(<<kA>>)], [i \in 1..3 |-> SavedRun(<<kA>>)] }

InitRun ==
    /\ pc = "start"
    /\ variant \in {"v1", "v2"}
    /\ dataA = Undefined
    /\ dataB = Undefined
    /\ changes = <<>>
    /\ changesBA = <<>>
    /\ impacts = <<>>
    /\ args \in ArgLists
    /\ \E h \in StoredRuns :
         /\ variant = "v1" => h = <<>>
         /\ historyFile = [exists |-> h # <<>>, entries |-> h]
    /\ clock = 0
    /\ insights = <<>>
    /\ out = <<>>
    /\ exitCode = 0
    /\ procs = <<>>

\* process.exit(code) after printing
Exit(printed, code) ==
    /\ out' = out \o printed
    /\ pc' = "exit"
    /\ exitCode' = code

\* a parseArgs that counts the arguments before it looks for --history
ParseArgsCountFirst ==
    /\ pc = "start"
    /\ variant = "v2"
    /\ IF Len(args) < 2
       THEN Exit(<<"error", "usage">>, 1)
       ELSE IF \E i \in 1..Len(args) : args[i] = Tk.history
       THEN Exit(showHistory(loadHistory(historyFile)), 0)
       ELSE /\ pc' = "parsed"
            /\ UNCHANGED <<out, exitCode>>
    /\ UNCHANGED <<variant, dataA, dataB, changes, changesBA, impacts,
                   args, historyFile, clock, insights, procs>>

\* parseArgs() of impact-cli-v2.js
ParseArgs ==
    /\ pc = "start"
    /\ variant = "v2"
    /\ IF \E i \in 1..Len(args) : args[i] = Tk.history
       THEN Exit(showHistory(loadHistory(historyFile)), 0)
       ELSE IF Len(args) < 2
       THEN Exit(<<"error", "usage">>, 1)
       ELSE /\ pc' = "parsed"
            /\ UNCHANGED <<out, exitCode>>
    /\ UNCHANGED <<variant, dataA, dataB, changes, changesBA, impacts,
                   args, historyFile, clock, insights, procs>>

\* parseArgs() of impact-cli.js
ParseArgsV1 ==
    /\ pc = "start"
    /\ variant = "v1"
    /\ IF Len(args) < 2
       THEN Exit(<<"error", "usage">>, 1)
       ELSE IF HelpReached(args, 3)
       THEN Exit(<<"usage">>, 0)
       ELSE /\ pc' = "parsed"
            /\ UNCHANGED <<out, exitCode>>
    /\ UNCHANGED <<variant, dataA, dataB, changes, changesBA, impacts,
                   args, historyFile, clock, insights, procs>>

\* the banner, then const dataA = loadFile(fileA); const dataB = loadFile(fileB)
LoadFiles ==
    /\ pc = "parsed"
    /\ LET a == loadFile(args[1])
           b == loadFile(args[2])
           banner == IF variant = "v1" THEN <<"banner", "progress">> ELSE <<"banner">>
       IN IF a.ok /\ b.ok
          THEN /\ dataA' = a.data
               /\ dataB' = b.data
               /\ out' = out \o banner
                         \o (IF variant = "v1" THEN <<"progress">> ELSE <<>>)
               /\ pc' = "loaded"
               /\ UNCHANGED exitCode
          ELSE /\ Exit(banner \o <<"error">>, 1)
               /\ UNCHANGED <<dataA, dataB>>
    /\ UNCHANGED <<variant, changes, changesBA, impacts,
                   args, historyFile, clock, insights, procs>>

\* compareObjects, analyzeImpactLocal and, in v2, the loading of the schema
\* (validateSchema is not modelled: the one schema file of the model fails
\* to load)
Diff ==
    /\ pc = "loaded"
    /\ changes' = compareObjects(dataA, dataB, <<>>)
    /\ impacts' = IF variant = "v1" THEN analyzeImpactLocalV1(changes')
                                    ELSE analyzeImpactLocal(changes')
    /\ LET schemaPath == Option(args, <<"-","-","s","c","h","e","m","a","=">>)
       IN IF variant = "v2" /\ schemaPath # <<>> /\ ~loadFile(schemaPath).ok
          THEN Exit(<<"error">>, 1)
          ELSE /\ pc' = IF variant = "v1" THEN "insights" ELSE "analyzed"
               /\ out' = out \o (IF variant = "v1" THEN <<"progress">> ELSE <<>>)
               /\ UNCHANGED exitCode
    /\ UNCHANGED <<variant, dataA, dataB, changesBA,
                   args, historyFile, clock, insights, procs>>

\* insights computed from the history as it will be once this run is saved
LoadInsightsOfSaved ==
    /\ pc = "analyzed"
    /\ insights' = analyzeHistory(
                      <<HistoryRecord(<<"r">>, clock + 1, Basename(args[1]),
                                      Basename(args[2]), changes, impacts)>>
                      \o loadHistory(historyFile))
    /\ out' = out \o (IF insights' = <<>> THEN <<>> ELSE <<"insights">>)
    /\ pc' = "insights"
    /\ UNCHANGED <<variant, dataA, dataB, changes, changesBA, impacts,
                   args, historyFile, clock, exitCode, procs>>

\* const history = loadHistory(); const insights = analyzeHistory(history);
\* printHistoryInsights(insights)
LoadInsights ==
    /\ pc = "analyzed"
    /\ insights' = analyzeHistory(loadHistory(historyFile))
    /\ out' = out \o (IF insights' = <<>> THEN <<>> ELSE <<"insights">>)
    /\ pc' = "insights"
    /\ UNCHANGED <<variant, dataA, dataB, changes, changesBA, impacts,
                   args, historyFile, clock, exitCode, procs>>

\* printChanges(changes); printImpacts(impacts); printSummary(changes, impacts);
\* main() of impact-cli.js returns here
PrintReport ==
    /\ pc = "insights"
    /\ IF variant = "v1"
       THEN Exit(<<"changes", "impacts", "summary">>, 0)
       ELSE /\ out' = out \o <<"changes", "impacts", "summary">>
            /\ pc' = "printed"
            /\ UNCHANGED exitCode
    /\ UNCHANGED <<variant, dataA, dataB, changes, changesBA, impacts,
                   args, historyFile, clock, insights, procs>>

\* a last step that saves every run that gets this far
SaveAlways ==
    /\ pc = "printed"
    /\ LET saveName == Option(args, <<"-","-","s","a","v","e","=">>)
           arrow == <<" ", "-", ">", " ">>
       IN /\ clock' = clock + 1
          /\ historyFile' =
               saveToHistory(historyFile,
                   HistoryRecord(IF saveName # <<>> THEN saveName
                                 ELSE Basename(args[1]) \o arrow \o Basename(args[2]),
                                 clock', Basename(args[1]), Basename(args[2]),
                                 changes, impacts))
    /\ Exit(<<>>, 0)
    /\ UNCHANGED <<variant, dataA, dataB, changes, changesBA, impacts,
                   args, insights, procs>>

\* if (saveName || changes.length > 0) saveToHistory({...}); main() returns
Save ==
    /\ pc = "printed"
    /\ LET saveName == Option(args, <<"-","-","s","a","v","e","=">>)
           arrow == <<" ", "-", ">", " ">>
       IN IF saveName # <<>> \/ Len(changes) > 0
          THEN /\ clock' = clock + 1
               /\ historyFile' =
                    saveToHistory(historyFile,
                        HistoryRecord(IF saveName # <<>> THEN saveName
                                      ELSE Basename(args[1]) \o arrow \o Basename(args[2]),
                                      clock', Basename(args[1]), Basename(args[2]),
                                      changes, impacts))
          ELSE UNCHANGED <<clock, historyFile>>
    /\ Exit(<<>>, 0)
    /\ UNCHANGED <<variant, dataA, dataB, changes, changesBA, impacts,
                   args, insights, procs>>

NextRun ==
    \/ ParseArgs
    \/ ParseArgsV1
    \/ LoadFiles
    \/ Diff
    \/ LoadInsights
    \/ PrintReport
    \/ Save

SpecRun == InitRun /\ [][NextRun]_vars

-----------------------------------------------------------------------------
(* Two invocations saving to the history side by side: each reads the file
   (loadHistory) and later rewrites it (writeFileSync), and the operating
   system may run the other invocation in between *)

Invocations == {1, 2}

InitRace ==
    /\ pc = "race"
    /\ variant = "v2"
    /\ dataA = Obj(<<>>)
    /\ dataB = Obj(<<>>)
    /\ changes = <<>>
    /\ changesBA = <<>>
    /\ impacts = <<>>
    /\ args = <<>>
    /\ \E n \in 0..HistoryLimit :
         historyFile \in { [exists |-> TRUE, entries |-> StoredHistory(n)],
                           [exists |-> FALSE, entries |-> <<>>] }
    /\ clock = HistoryLimit + 2
    /\ insights = <<>>
    /\ out = <<>>
    /\ exitCode = 0
    /\ procs = [p \in Invocations |->
                  [pc |-> "idle", history |-> <<>>,
                   record |-> NamedRun(<<"r">>, HistoryLimit + p)]]

\* const history = loadHistory(), in invocation p
RaceLoad(p) ==
    /\ pc = "race"
    /\ procs[p].pc = "idle"
    /\ procs' = [procs EXCEPT ![p].pc = "loaded",
                              ![p].history = loadHistory(historyFile)]
    /\ UNCHANGED <<pc, variant, dataA, dataB, changes, changesBA, impacts,
                   args, historyFile, clock, insights, out, exitCode>>

\* a rewrite that stores the new record alone
RaceWriteAlone(p) ==
    /\ pc = "race"
    /\ procs[p].pc = "loaded"
    /\ historyFile' = [exists |-> TRUE, entries |-> <<procs[p].record>>]
    /\ procs' = [procs EXCEPT ![p].pc = "done"]
    /\ UNCHANGED <<pc, variant, dataA, dataB, changes, changesBA, impacts,
                   args, clock, insights, out, exitCode>>

\* history.unshift(record); splice; fs.writeFileSync(HISTORY_FILE, ...), in
\* invocation p
RaceWrite(p) ==
    /\ pc = "race"
    /\ procs[p].pc = "loaded"
    /\ historyFile' = [exists |-> TRUE,
                       entries |-> unshiftCapped(procs[p].history, procs[p].record)]
    /\ procs' = [procs EXCEPT ![p].pc = "done"]
    /\ UNCHANGED <<pc, variant, dataA, dataB, changes, changesBA, impacts,
                   args, clock, insights, out, exitCode>>

NextRace == \E p \in Invocations : RaceLoad(p) \/ RaceWrite(p)

SpecRace == InitRace /\ [][NextRace]_vars

-----------------------------------------------------------------------------
(* Properties of the classifier *)

\* the tier the specification gives each path of ChangeRecords, by the name of
\* its last segment
ExpectedTier(path) ==
    CASE path = pDbHost      -> "high"
      [] path = pSecret      -> "critical"
      [] path = pTimeout     -> "high"
      [] path = pAuthTimeout -> "critical"
      [] path = pEnabled     -> "critical"
      [] path = pActive      -> "critical"
      [] path = pName        -> "medium"
      [] path = pSecretX     -> "low"

ChangesOfType(type) == SelectSeq(changes, LAMBDA c : c.type = type)

ImpactsOfType(type) == SelectSeq(impacts, LAMBDA i : i.changeType = type)

PathLevels(list) == [i \in 1..Len(list) |-> <<list[i].path, list[i].level>>]

\* imp is the image of a subsequence of chg: each impact record carries the
\* path and kind of a change of its own, in the order of the changes
RECURSIVE Embeds(_, _)
Embeds(imp, chg) ==
    IF imp = <<>> THEN TRUE
    ELSE IF chg = <<>> THEN FALSE
    ELSE IF Head(imp).path = Head(chg).path /\ Head(imp).changeType = Head(chg).type
         THEN Embeds(Tail(imp), Tail(chg))
    ELSE Embeds(imp, Tail(chg))

\* C6: the impact records are the image of a subsequence of the input, in the
\* input's order: at most one per change, none for a change that is not there.
C6_OrderPreservingImage ==
    pc = "classify" => Len(impacts) <= Len(changes) /\ Embeds(impacts, changes)

C6_Witness ==
    /\ pc = "classify"
    /\ Len(changes) = 2
    /\ Len(impacts) = 2
    /\ impacts[1].path = changes[1].path
    /\ impacts[2].path = changes[2].path
    /\ impacts[1].path # impacts[2].path

\* C7: the baseline level is the tier of the last path segment, Critical
\* before High before Medium, Low when none matches (seen on Added changes,
\* which no refinement touches); a Modified change at db.host with same-typed
\* values is High.
C7_BaselineByLastSegment ==
    pc = "classify" =>
        /\ PathLevels(ImpactsOfType("added"))
             = LET kept == SelectSeq(ChangesOfType("added"),
                                     LAMBDA c : ExpectedTier(c.path) # "low")
               IN [i \in 1..Len(kept) |-> <<kept[i].path, ExpectedTier(kept[i].path)>>]
        /\ (/\ Len(changes) = 1
            /\ changes[1].type = "modified"
            /\ changes[1].path = pDbHost
            /\ TypeOf(changes[1].oldValue) = TypeOf(changes[1].newValue))
           => PathLevels(impacts) = << <<pDbHost, "high">> >>

C7_Witness ==
    /\ pc = "classify"
    /\ Len(changes) = 2
    /\ changes[1] = Added(pAuthTimeout, Str(<<"x">>))
    /\ changes[2] = Added(pSecretX, Str(<<"x">>))
    /\ PathLevels(impacts) = << <<pAuthTimeout, "critical">> >>

\* C8: every Removed change yields exactly one impact record, at the higher of
\* its baseline tier and Medium.
C8_RemovalFloorMedium ==
    pc = "classify" =>
        PathLevels(ImpactsOfType("removed"))
          = LET removed == ChangesOfType("removed")
            IN [i \in 1..Len(removed) |->
                   <<removed[i].path,
                     IF ExpectedTier(removed[i].path) = "low"
                     THEN "medium" ELSE ExpectedTier(removed[i].path)>>]

C8_Witness ==
    /\ pc = "classify"
    /\ Len(changes) = 2
    /\ changes[1] = Removed(pSecretX, Str(<<"x">>))
    /\ changes[2] = Removed(pSecret, Str(<<"x">>))
    /\ PathLevels(impacts) = << <<pSecretX, "medium">>, <<pSecret, "critical">> >>

\* a number, or a string that parses as one
IsNumeric(v) ==
    \/ v.t = "number"
    \/ v.t = "string" /\ Len(v.s) > 0 /\ \A i \in 1..Len(v.s) : IsDigit(v.s[i])

\* what only the timeout rule of v2 leaves in an impact record
TimeoutRuleFired(impact) ==
    \/ impact.description.msg = "Timeout decreased from {old} to {new}."
    \/ impact.recommendation.msg = "Make sure the new value is sufficient."

\* C9: on a Modified change of a timeout field the timeout rule fires exactly
\* when both values are numeric and the new one is smaller; it then gives
\* level High and the description naming the two values.
C9_TimeoutRuleOnlyForNumbers ==
    (/\ pc = "classify"
     /\ variant = "v2"
     /\ Len(changes) = 1
     /\ changes[1].type = "modified"
     /\ ContainsI(LastKeyOf(changes[1].path), wTimeout))
    => LET old == changes[1].oldValue
           new == changes[1].newValue
           decrease == /\ IsNumeric(old) /\ IsNumeric(new)
                       /\ ToNumber(new).n < ToNumber(old).n
       IN /\ Len(impacts) = 1
          /\ TimeoutRuleFired(impacts[1]) <=> decrease
          /\ decrease =>
               /\ impacts[1].level = "high"
               /\ impacts[1].description
                    = Text("Timeout decreased from {old} to {new}.",
                           Interpolate(old), Interpolate(new))

IsFlagChange(c) ==
    /\ c.type = "modified"
    /\ \E word \in {wEnable, wEnabled, wActive} : EqualsI(LastKeyOf(c.path), word)

\* C10: every Modified change of an enabled/active field yields an impact
\* record of level Critical, whatever the old and new values.
C10_FlagChangeCritical ==
    pc = "classify" =>
        LET flags == SelectSeq(changes, LAMBDA c : IsFlagChange(c))
            found == SelectSeq(impacts,
                               LAMBDA i : i.changeType = "modified"
                                          /\ i.path \in {pEnabled, pActive})
        IN PathLevels(found) = [i \in 1..Len(flags) |-> <<flags[i].path, "critical">>]

\* C11: in v2 a Modified change whose old and new values have different
\* run-time types (typeof) yields an impact record of level High, also for a
\* Low- or Medium-tier field.
C11_TypeChangeHigh ==
    (pc = "classify" /\ variant = "v2") =>
        LET typed == SelectSeq(changes,
                               LAMBDA c : /\ c.type = "modified"
                                          /\ TypeOf(c.oldValue) # TypeOf(c.newValue))
            found == SelectSeq(impacts,
                               LAMBDA i : i.description.msg
                                            = "Data type changed from {old} to {new}")
        IN PathLevels(found) = [i \in 1..Len(typed) |-> <<typed[i].path, "high">>]

C11_Witness ==
    /\ pc = "classify"
    /\ variant = "v2"
    /\ changes = << Modified(pSecretX, Bool(TRUE), Str(<<"y","e","s">>)),
                    Modified(pName, Bool(TRUE), Str(<<"y","e","s">>)) >>
    /\ PathLevels(impacts) = << <<pSecretX, "high">>, <<pName, "high">> >>

\* a change whose final level is Low: a Low-tier field, added or modified,
\* that no refinement raises (v2 raises a change of type; v1 has no such rule)
FinalLow(c) ==
    /\ ExpectedTier(c.path) = "low"
    /\ c.type # "removed"
    /\ ~(/\ variant = "v2"
         /\ c.type = "modified"
         /\ TypeOf(c.oldValue) # TypeOf(c.newValue))

PathKinds(list, kind(_)) == [i \in 1..Len(list) |-> <<list[i].path, kind(list[i])>>]

\* C12: a change produces an impact record exactly when its final level is not
\* Low or its kind is Removed, and no impact record has level Low.
C12_OutputFilter ==
    pc = "classify" =>
        /\ PathKinds(impacts, LAMBDA i : i.changeType)
             = PathKinds(SelectSeq(changes, LAMBDA c : ~FinalLow(c)), LAMBDA c : c.type)
        /\ \A i \in 1..Len(impacts) : impacts[i].level # "low"

C12_Witness ==
    /\ pc = "classify"
    /\ changes = << Added(pSecretX, Str(<<"x">>)), Removed(pSecretX, Str(<<"x">>)) >>
    /\ Len(impacts) = 1
    /\ impacts[1].changeType = "removed"
    /\ impacts[1].level = "medium"

Rank(level) ==
    CASE level = "low" -> 0 [] level = "medium" -> 1
      [] level = "high" -> 2 [] level = "critical" -> 3

\* C19: the level of every impact record is at least the baseline tier of the
\* last segment of its path.
C19_RefinementsOnlyEscalate ==
    pc = "classify" =>
        \A i \in 1..Len(impacts) :
            Rank(impacts[i].level) >= Rank(ExpectedTier(impacts[i].path))

-----------------------------------------------------------------------------
(* Properties of the differ *)

\* value equality of two documents: mappings by key set, whatever the order
\* of their keys; sequences element by element; scalars by type and value
RECURSIVE DeepEqual(_, _)
DeepEqual(x, y) ==
    /\ x.t = y.t
    /\ x.n = y.n
    /\ x.s = y.s
    /\ Len(x.kids) = Len(y.kids)
    /\ IF x.t = "object"
       THEN \A i \in 1..Len(x.kids) :
                /\ HasOwn(y, x.kids[i].k)
                /\ DeepEqual(x.kids[i].v, Get(y, x.kids[i].k))
       ELSE \A i \in 1..Len(x.kids) : DeepEqual(x.kids[i].v, y.kids[i].v)

OfType(list, type) == {list[i] : i \in {j \in 1..Len(list) : list[j].type = type}}

PathValues(list, type) == {<<c.path, c.value>> : c \in OfType(list, type)}

HasKind(doc, t) == \E i \in 1..Len(doc.kids) : doc.kids[i].v.t = t

\* C1: comparing a document with itself returns the empty list of change
\* records.
C1_SelfDiffEmpty ==
    (pc # "loaded" /\ dataA = dataB) => changes = <<>>

C1_Witness ==
    /\ pc = "compared"
    /\ dataA = dataB
    /\ HasKind(dataA, "array")
    /\ HasKind(dataA, "object")
    /\ changes = <<>>

\* C2: compareObjects(A, B) has an Added record at a path with a value exactly
\* when compareObjects(B, A) has a Removed record at that path with that
\* value, and the other way round.
C2_AddedMirrorsRemoved ==
    pc = "both" =>
        /\ PathValues(changes, "added") = PathValues(changesBA, "removed")
        /\ PathValues(changes, "removed") = PathValues(changesBA, "added")

C2_Witness ==
    /\ pc = "both"
    /\ OfType(changes, "added") # {}
    /\ OfType(changes, "removed") # {}
    /\ OfType(changesBA, "removed") # {}

\* C3: every Modified record carries an old and a new value that are unequal
\* under deep equality (the order of a mapping's keys being irrelevant).
C3_ModifiedValuesDiffer ==
    pc # "loaded" =>
        \A c \in OfType(changes, "modified") : ~DeepEqual(c.oldValue, c.newValue)

\* the records C4 asks for, key by key over the union of the two key lists
RECURSIVE ExpectedRecords(_, _, _)
ExpectedRecords(a, b, path) ==
    LET keys == KeySet(ObjectKeys(a) \o ObjectKeys(b), <<>>)
        IsMapping(v) == v.t = "object"
        For(key) ==
            LET p == CurrentPath(path, key)
            IN IF ~HasOwn(a, key) THEN <<Added(p, Get(b, key))>>
               ELSE IF ~HasOwn(b, key) THEN <<Removed(p, Get(a, key))>>
               ELSE IF IsMapping(Get(a, key)) /\ IsMapping(Get(b, key))
                    THEN ExpectedRecords(Get(a, key), Get(b, key), p)
               ELSE IF Get(a, key) # Get(b, key)
                    THEN <<Modified(p, Get(a, key), Get(b, key))>>
               ELSE <<>>
        RECURSIVE Over(_)
        Over(i) == IF i > Len(keys) THEN <<>> ELSE For(keys[i]) \o Over(i + 1)
    IN Over(1)

\* C4: for every key of the union, one Added record if the key is only in b,
\* one Removed record if it is only in a, the records of the recursive
\* comparison alone if both values are mappings, one Modified record if the
\* values differ otherwise, and nothing if they are equal.
C4_RecordsPerKey ==
    pc # "loaded" => changes = ExpectedRecords(dataA, dataB, <<>>)

\* C5: no two change records of one comparison share a path.
C5_PathsUnique ==
    pc # "loaded" =>
        \A i, j \in 1..Len(changes) : changes[i].path = changes[j].path => i = j

-----------------------------------------------------------------------------
(* Properties of the history analysis *)

HistoryPaths == { hPaths[i] : i \in 1..6 } \cup {kCtor}

\* how often a path occurs over all changes of all entries
Occurrences(path, history) ==
    Cardinality({ ij \in (1..Len(history)) \X (1..6) :
                    /\ ij[2] <= Len(history[ij[1]].changes)
                    /\ history[ij[1]].changes[ij[2]].path = path })

\* the paths a list of insight labels may hold: each label names a path that
\* occurs at least FrequentCount times, with its count; no path twice; counts
\* never increase; no path left out occurs more often than a listed one; all
\* such paths are listed, up to TopPaths of them
ReportsFrequent(labels, history) ==
    LET frequent == { p \in HistoryPaths : Occurrences(p, history) >= FrequentCount }
    IN /\ Len(labels) = IF Cardinality(frequent) < TopPaths
                        THEN Cardinality(frequent) ELSE TopPaths
       /\ \E listed \in [1..Len(labels) -> frequent] :
            /\ \A i \in 1..Len(labels) :
                 labels[i] = PathLabel(listed[i], Occurrences(listed[i], history))
            /\ \A i, j \in 1..Len(labels) : i # j => listed[i] # listed[j]
            /\ \A i, j \in 1..Len(labels) :
                 i < j => Occurrences(listed[i], history) >= Occurrences(listed[j], history)
            /\ \A p \in frequent :
                 (\A i \in 1..Len(labels) : listed[i] # p)
                    => \A i \in 1..Len(labels) :
                         Occurrences(listed[i], history) >= Occurrences(p, history)

\* C13: analyzeHistory yields nothing for a history of fewer than 3 entries or
\* when no path occurs 3 times; otherwise one insight listing exactly the paths
\* occurring at least 3 times, by non-increasing count, cut to the 5 most
\* frequent.
C13_FrequentPaths ==
    pc = "analyzed" =>
        LET history == loadHistory(historyFile)
            frequent == { p \in HistoryPaths : Occurrences(p, history) >= FrequentCount }
        IN IF Len(history) < MinHistory \/ frequent = {}
           THEN insights = <<>>
           ELSE /\ Len(insights) = 1
                /\ ReportsFrequent(insights[1].paths, history)

-----------------------------------------------------------------------------
(* Properties of saveToHistory *)

\* C14: every saveToHistory call leaves at most 100 entries, the saved record
\* first, the earlier entries behind it in their order, the oldest ones dropped
\* beyond the limit.
C14_CappedNewestFirst ==
    [][historyFile' # historyFile =>
         LET old == loadHistory(historyFile)
             new == historyFile'.entries
         IN /\ historyFile'.exists
            /\ Len(new) <= HistoryLimit
            /\ Len(new) = IF Len(old) < HistoryLimit THEN Len(old) + 1 ELSE HistoryLimit
            /\ new[1].timestamp = clock'
            /\ Tail(new) = SubSeq(old, 1, Len(new) - 1)
            /\ \A i \in 1..(Len(new) - 1) : new[i].timestamp > new[i + 1].timestamp]_vars

C14_Witness ==
    /\ pc = "save"
    /\ Len(historyFile.entries) = HistoryLimit
    /\ historyFile.entries[1].timestamp = HistoryLimit + 2
    /\ historyFile.entries[HistoryLimit].timestamp = 3

-----------------------------------------------------------------------------
(* Properties of one invocation *)

Has(argv, token) == \E i \in 1..Len(argv) : argv[i] = token

Printed(event) == \E i \in 1..Len(out) : out[i] = event

\* the history file is as the earlier runs left it
HistoryUntouched ==
    /\ clock = 0
    /\ historyFile.entries \in StoredRuns
    /\ historyFile.exists = (historyFile.entries # <<>>)

\* C15: with --history among the arguments, a v2 run loads no input file,
\* computes no diff and no classification and leaves the history file alone;
\* it ends with exit code 0 having printed the stored history and nothing else.
C15_HistoryShortCircuit ==
    (variant = "v2" /\ Has(args, Tk.history)) =>
        /\ pc \in {"start", "exit"}
        /\ dataA = Undefined /\ dataB = Undefined
        /\ changes = <<>> /\ impacts = <<>> /\ insights = <<>>
        /\ HistoryUntouched
        /\ pc = "exit" =>
             /\ exitCode = 0
             /\ IF historyFile.entries = <<>>
                THEN out = <<"history empty">>
                ELSE /\ Len(out) = 1 + (IF Len(historyFile.entries) < ShownRecords
                                        THEN Len(historyFile.entries) ELSE ShownRecords)
                     /\ out[1] = "history header"
                     /\ \A i \in 2..Len(out) : out[i] = "history record"

C15_Witness ==
    /\ variant = "v2"
    /\ pc = "exit"
    /\ args = <<Tk.bad, Tk.history>>
    /\ Len(historyFile.entries) = 3
    /\ out = <<"history header", "history record", "history record", "history record">>
    /\ exitCode = 0

\* C16: the impact command (impact-cli.js) given --help or -h prints the usage
\* and exits 0, whatever else it is given; without --help and with fewer than
\* two arguments it prints the usage and exits 1.
C16_HelpAndUsage ==
    (variant = "v1" /\ pc = "exit") =>
        /\ (Has(args, Tk.help) \/ Has(args, Tk.h)) =>
              (exitCode = 0 /\ out = <<"usage">>)
        /\ (~Has(args, Tk.help) /\ ~Has(args, Tk.h) /\ Len(args) < 2) =>
              (exitCode = 1 /\ Printed("usage"))

\* the files a run is asked to load: both positional arguments and, in v2,
\* the schema
AskedFiles ==
    {args[1], args[2]}
    \cup (IF variant = "v2" /\ \E i \in 1..Len(args) : args[i] = Tk.schema
          THEN {Tk.bad} ELSE {})

\* the run gets as far as loading, and a file it is asked for is missing,
\* malformed or of an unsupported format
InputFailure ==
    /\ Len(args) >= 2
    /\ ~(variant = "v2" /\ Has(args, Tk.history))
    /\ ~(variant = "v1" /\ \E i \in 3..Len(args) : args[i] \in {Tk.help, Tk.h})
    /\ \E f \in AskedFiles : f \notin {Tk.a, Tk.b}

\* C17: a run whose input file cannot be loaded ends with exit code 1 after an
\* error message, prints no change list, impact list or summary and saves no
\* history entry; a run ends with exit code 0 only if no input failed.
C17_LoadFailureExitsOne ==
    pc = "exit" =>
        /\ InputFailure =>
             /\ exitCode = 1
             /\ out # <<>> /\ out[Len(out)] = "error"
             /\ ~Printed("changes") /\ ~Printed("impacts") /\ ~Printed("summary")
             /\ HistoryUntouched
        /\ exitCode = 0 =>
             /\ ~InputFailure
             /\ Printed("summary") \/ Printed("usage")
                  \/ Printed("history header") \/ Printed("history empty")

C17_Witness ==
    /\ pc = "exit"
    /\ variant = "v2"
    /\ args = <<Tk.a, Tk.bad, Tk.save>>
    /\ out = <<"banner", "error">>
    /\ exitCode = 1
    /\ HistoryUntouched

\* C20: the insights of a v2 run are those of the history the earlier runs
\* left: they are computed while the file is still untouched, and after the
\* run has saved its record they still are the insights of the entries behind
\* that record.
C20_InsightsBeforeSave ==
    variant = "v2" =>
        /\ pc \in {"insights", "printed"} =>
             (HistoryUntouched /\ insights = analyzeHistory(loadHistory(historyFile)))
        /\ (pc = "exit" /\ clock = 1) =>
             /\ historyFile.entries[1].timestamp = 1
             /\ Tail(historyFile.entries) \in StoredRuns
             /\ insights = analyzeHistory(Tail(historyFile.entries))

\* the saved run brings the path a to three occurrences: this run reports
\* nothing, a run starting from the file it leaves would
C20_Witness ==
    /\ variant = "v2"
    /\ pc = "exit"
    /\ clock = 1
    /\ Len(historyFile.entries) = 3
    /\ insights = <<>>
    /\ analyzeHistory(historyFile.entries)
         = << [type |-> "frequent_changes", paths |-> <<PathLabel(kA, 3)>>] >>

-----------------------------------------------------------------------------
(* Properties of concurrent saves *)

Stored(record) ==
    \E i \in 1..Len(historyFile.entries) : historyFile.entries[i] = record

AllSaved == \A p \in Invocations : procs[p].pc = "done"

\* one invocation read the file only after the other had rewritten it
RanInTurn ==
    \E p, q \in Invocations :
        /\ p # q
        /\ \E i \in 1..Len(procs[q].history) : procs[q].history[i] = procs[p].record

\* C18: two invocations that save one after the other both leave their entry
\* in the history; the lost update of the witness needs their reads and
\* writes to interleave.
C18_SequentialKeepsBoth ==
    (pc = "race" /\ AllSaved /\ RanInTurn) =>
        \A p \in Invocations : Stored(procs[p].record)

\* both invocations have saved, and the entry of one is gone
C18_LostUpdate ==
    /\ pc = "race"
    /\ AllSaved
    /\ ~RanInTurn
    /\ \E p \in Invocations : ~Stored(procs[p].record)
    /\ \E p \in Invocations : Stored(procs[p].record)

-----------------------------------------------------------------------------
(* Properties of the history write of one invocation *)

\* the name the run was given: what follows --save= in the first argument
\* that starts so (nothing when there is none)
GivenName ==
    LET named == SelectSeq(args, LAMBDA a : a \in {Tk.save, Tk.unnamed})
    IN IF named # <<>> /\ named[1] = Tk.save THEN <<"x">> ELSE <<>>

\* the run got through loading, comparing and printing
RunSucceeded == exitCode = 0 /\ Printed("summary")

\* the two documents compared differ
ChangeDetected == {args[1], args[2]} = {Tk.a, Tk.b}

\* C21: a v2 run writes the history file at most once, at its last step, and
\* exactly when it succeeded with a non-empty --save name or with at least one
\* change; it then stores one record in front of the entries found.  Every
\* other run (no change and no name, or failed or ended earlier) leaves the
\* file as it was.
C21_HistoryWrittenOnce ==
    variant = "v2" =>
        /\ clock <= 1
        /\ pc # "exit" => HistoryUntouched
        /\ pc = "exit" =>
             IF RunSucceeded /\ (GivenName # <<>> \/ ChangeDetected)
             THEN /\ clock = 1
                  /\ historyFile.exists
                  /\ Tail(historyFile.entries) \in StoredRuns
                  /\ historyFile.entries[1].timestamp = 1
                  /\ historyFile.entries[1].summary.total = Len(changes)
                  /\ GivenName # <<>> => historyFile.entries[1].name = GivenName
             ELSE HistoryUntouched

\* a run that found no change and saved its record because of its name
C21_Witness ==
    /\ variant = "v2"
    /\ pc = "exit"
    /\ args = <<Tk.a, Tk.a, Tk.save>>
    /\ changes = <<>>
    /\ clock = 1
    /\ Len(historyFile.entries) = 1
    /\ historyFile.entries[1].name = <<"x">>

=============================================================================
